---- MODULE Spec2Model ----
(***************************************************************************)
(* A model of the b3 package: the fixed-width COTAHIST decoder of          *)
(* b3/parsing/historical_quotes.py with the numeric helpers of             *)
(* b3/utils.py, and the company lookup of b3/net/query.py.                 *)
(*                                                                         *)
(* Text is modelled by TLA+ strings; an index is 1-based in TLA+ and       *)
(* 0-based in the Python source, so every slice goes through PySlice.      *)
(* A Python int is kept as its decimal numeral (a string without leading   *)
(* zeros), so that 18-digit fields keep their full value.                  *)
(***************************************************************************)
EXTENDS Integers, Sequences, FiniteSets, TLC

VARIABLES
    \* the scoped reader (historical_quotes_reader around _reader)
    mode,        \* "none" | "path" | "stream": what the caller passed
    scope,       \* "before" | "inside" | "exited": the with-block
    closes,      \* how often historical_quotes_reader called f.close()
    lines,       \* the lines the generator has pulled from the stream so far
    records,     \* the records the generator has yielded so far
    gen,         \* "suspended" | "exhausted" | "raised": the generator _reader
    \* one run of _parse_quotes_line, field by field
    payload,     \* the argument of _parse_quotes_line (the line after its code)
    fidx,        \* index of the next field of _quotes_fields() to read
    pos,         \* the local pos
    values,      \* the local values
    readAt,      \* history: the value of pos when each field was read
    \* one call of a picture-decimal field factory
    picField,    \* the field whose factory is called
    picInput,    \* the digit string passed to it
    picOut,      \* "pending", or the returned value
    \* one call of company_detail
    response,    \* the decoded JSON response
    outcome      \* "pending", or what company_detail returned or raised

readerVars == <<mode, scope, closes, lines, records, gen>>
lineVars == <<payload, fidx, pos, values, readAt>>
picVars == <<picField, picInput, picOut>>
queryVars == <<response, outcome>>
vars == <<readerVars, lineVars, picVars, queryVars>>

----------------------------------------------------------------------------
(* Strings *)

MinOf(S) == CHOOSE x \in S : \A y \in S : x <= y
MaxOf(S) == CHOOSE x \in S : \A y \in S : x >= y

\* s[i] of Python for the 1-based index i
Char(s, i) == SubSeq(s, i, i)

\* s[a:b] of Python, 0 <= a <= b: a slice never raises, it is cut at the end
PySlice(s, a, b) ==
    LET lo == IF a < Len(s) THEN a ELSE Len(s)
        hi == IF b < Len(s) THEN b ELSE Len(s)
    IN  IF lo >= hi THEN "" ELSE SubSeq(s, lo + 1, hi)

\* s[a:] of Python
PyFrom(s, a) == PySlice(s, a, Len(s))

DigitChars == {"0", "1", "2", "3", "4", "5", "6", "7", "8", "9"}
SpaceChars == {" ", "\t", "\n", "\r", "\f"}

IsDigits(s) == \A i \in 1..Len(s) : Char(s, i) \in DigitChars

\* the part of s between the first and the last index of keep
Between(s, keep) == IF keep = {} THEN "" ELSE SubSeq(s, MinOf(keep), MaxOf(keep))

\* str.strip()
strip(s) == Between(s, {i \in 1..Len(s) : Char(s, i) \notin SpaceChars})

\* s.replace("_", "")
RECURSIVE DropUnderscores(_)
DropUnderscores(s) ==
    IF s = "" THEN ""
    ELSE IF Head(s) = "_" THEN DropUnderscores(Tail(s))
         ELSE Head(s) \o DropUnderscores(Tail(s))

\* the part of s from the first index of a non-empty set on
FromFirst(s, at) == SubSeq(s, MinOf(at), Len(s))

\* the part of s before the first index of a non-empty set
BeforeFirst(s, at) == SubSeq(s, 1, MinOf(at) - 1)

\* the part of s after the first index of a non-empty set
AfterFirst(s, at) == PyFrom(s, MinOf(at))

\* the numeral of the integer a digit string denotes: leading zeros dropped
Numeral(ds) ==
    IF \A i \in 1..Len(ds) : Char(ds, i) = "0" THEN "0"
    ELSE FromFirst(ds, {i \in 1..Len(ds) : Char(ds, i) # "0"})

DigitVal(c) ==
    CASE c = "0" -> 0 [] c = "1" -> 1 [] c = "2" -> 2 [] c = "3" -> 3
      [] c = "4" -> 4 [] c = "5" -> 5 [] c = "6" -> 6 [] c = "7" -> 7
      [] c = "8" -> 8 [] c = "9" -> 9

\* the value of a short digit string
RECURSIVE ToNat(_)
ToNat(ds) ==
    IF ds = "" THEN 0
    ELSE 10 * ToNat(SubSeq(ds, 1, Len(ds) - 1)) + DigitVal(Char(ds, Len(ds)))

HasSign(s) == s # "" /\ Head(s) \in {"+", "-"}
SignOf(s) == IF HasSign(s) THEN Head(s) ELSE ""
Unsigned(s) == IF HasSign(s) THEN Tail(s) ELSE s

----------------------------------------------------------------------------
(* Values and results.  A call returns a value or raises an exception.     *)

None == [t |-> "None"]
Return(v) == [exc |-> "", val |-> v]
Raise(e) == [exc |-> e, val |-> None]

StrV(s) == [t |-> "str", v |-> s]
IntV(n) == [t |-> "int", v |-> n]
\* decimal.Decimal: signed coefficient numeral and exponent, the value being
\* v * 10^e (Decimal("10.50") is DecV("1050", -2))
DecV(coef, e) == [t |-> "Decimal", v |-> coef, e |-> e]
DateV(y, m, d) == [t |-> "date", y |-> y, m |-> m, d |-> d]
EnumV(cls, v) == [t |-> cls, v |-> v]

\* digits that single underscores may group
IsIntBody(body) ==
    /\ body # ""
    /\ \A i \in 1..Len(body) : Char(body, i) \in DigitChars \union {"_"}
    /\ Head(body) # "_" /\ Char(body, Len(body)) # "_"
    /\ \A i \in 1..(Len(body) - 1) : ~(Char(body, i) = "_" /\ Char(body, i + 1) = "_")

\* the numeral of a signed integer: -0 is 0
SignedNumeral(sign, num) == IF sign = "-" /\ num # "0" THEN "-" \o num ELSE num

\* int(s) for a string s already stripped: an optional sign, then the digits
int(s) ==
    IF IsIntBody(Unsigned(s))
    THEN Return(IntV(SignedNumeral(SignOf(s), Numeral(DropUnderscores(Unsigned(s))))))
    ELSE Raise("ValueError")

\* the exponent part of a Decimal literal, "" when there is none: the E, then
\* [sign] digits
IsExponent(expo) ==
    expo = "" \/ (Unsigned(Tail(expo)) # "" /\ IsDigits(Unsigned(Tail(expo))))
ExponentOf(expo) ==
    IF expo = "" THEN 0
    ELSE IF SignOf(Tail(expo)) = "-" THEN 0 - ToNat(Unsigned(Tail(expo)))
    ELSE ToNat(Unsigned(Tail(expo)))

\* a Decimal from its sign, the digits before and after the point, and exponent
DecimalOf(sign, ipart, fpart, expo) ==
    IF IsDigits(ipart) /\ IsDigits(fpart) /\ Len(ipart) + Len(fpart) > 0 /\ IsExponent(expo)
    THEN Return(DecV(sign \o Numeral(ipart \o fpart), ExponentOf(expo) - Len(fpart)))
    ELSE Raise("InvalidOperation")

\* the mantissa is cut at its first point (a second one is no digit)
DecimalMantissa(sign, mant, dots, expo) ==
    DecimalOf(sign,
              IF dots = {} THEN mant ELSE BeforeFirst(mant, dots),
              IF dots = {} THEN "" ELSE AfterFirst(mant, dots),
              expo)

\* the literal is cut at its first e or E
DecimalBody(sign, body, es) ==
    DecimalMantissa(IF sign = "-" THEN "-" ELSE "",
                    IF es = {} THEN body ELSE BeforeFirst(body, es),
                    {i \in 1..(IF es = {} THEN Len(body) ELSE MinOf(es) - 1) :
                        Char(body, i) = "."},
                    IF es = {} THEN "" ELSE FromFirst(body, es))

DecimalLiteral(t) ==
    DecimalBody(SignOf(t), Unsigned(t),
                {i \in 1..Len(Unsigned(t)) : Char(Unsigned(t), i) \in {"e", "E"}})

\* decimal.Decimal(s): [sign] digits [. [digits]] or [sign] . digits, then an
\* optional exponent E [sign] digits; surrounding whitespace and underscores
\* are dropped first.  Anything else raises decimal.InvalidOperation.
Decimal(s) == DecimalLiteral(DropUnderscores(strip(s)))

IsLeap(y) == (y % 4 = 0 /\ y % 100 # 0) \/ y % 400 = 0

DaysIn(y, m) ==
    IF m = 2 THEN (IF IsLeap(y) THEN 29 ELSE 28)
    ELSE IF m \in {4, 6, 9, 11} THEN 30 ELSE 31

NonZeroDigits == DigitChars \ {"0"}

\* The day of strptime's pattern, (3[01]|[12]\d|0[1-9]|[1-9]| [1-9]): the
\* length of the first alternative that matches a then b, 0 when none does
DayLength(a, b) ==
    IF a = "3" /\ b \in {"0", "1"} THEN 2
    ELSE IF a \in {"1", "2"} /\ b \in DigitChars THEN 2
    ELSE IF a = "0" /\ b \in NonZeroDigits THEN 2
    ELSE IF a \in NonZeroDigits THEN 1
    ELSE IF a = " " /\ b \in NonZeroDigits THEN 2
    ELSE 0

DayMatch(s) == DayLength(PySlice(s, 0, 1), PySlice(s, 1, 2))

\* The month, (1[0-2]|0[1-9]|[1-9]): whether a two-character alternative
\* matches a then b, and whether the one-character alternative matches a
MonthTwo(a, b) == (a = "1" /\ b \in {"0", "1", "2"}) \/ (a = "0" /\ b \in NonZeroDigits)
MonthOne(a) == a \in NonZeroDigits

\* The length of the month in the first match of month and day at the head of
\* s, in the order the pattern tries them; 0 when there is no match
MonthLength(s) ==
    IF MonthTwo(PySlice(s, 0, 1), PySlice(s, 1, 2)) /\ DayMatch(PyFrom(s, 2)) > 0 THEN 2
    ELSE IF MonthOne(PySlice(s, 0, 1)) /\ DayMatch(PyFrom(s, 1)) > 0 THEN 1
    ELSE 0

\* datetime's check of the numbers strptime found
DateOf(y, m, d) ==
    IF y < 1 \/ d > DaysIn(y, m) THEN Raise("ValueError") ELSE Return(DateV(y, m, d))

\* the match of the pattern, with ml characters of month, against the string
DateMatch(date_string, ml, dl) ==
    IF ml = 0 \/ 4 + ml + dl # Len(date_string) THEN Raise("ValueError")
    ELSE DateOf(ToNat(PySlice(date_string, 0, 4)),
                ToNat(PySlice(date_string, 4, 4 + ml)),
                ToNat(strip(PySlice(date_string, 4 + ml, 4 + ml + dl))))

DateMonth(date_string, ml) ==
    DateMatch(date_string, ml, DayMatch(PyFrom(date_string, 4 + ml)))

\* datetime.datetime.strptime(date_string, "%Y%m%d").date(): the pattern is
\* matched at the start of the string, the first match in the pattern's order
\* is taken, and data left after it, or a day the month does not have, or
\* the year 0, raises ValueError
date_from_string(date_string) ==
    IF Len(date_string) < 4 \/ ~IsDigits(PySlice(date_string, 0, 4)) THEN Raise("ValueError")
    ELSE DateMonth(date_string, MonthLength(PyFrom(date_string, 4)))

\* except decimal.InvalidOperation: return None
OrNone(r) == IF r.exc = "InvalidOperation" THEN Return(None) ELSE r

\* pic_to_decimal: the point goes after the first integral_places characters
pic_to_decimal(number, integral_places) ==
    OrNone(Decimal(PySlice(number, 0, integral_places) \o "."
                   \o PyFrom(number, integral_places)))

pic11v99(number) == pic_to_decimal(number, 11)

pic16v99(number) == pic_to_decimal(number, 16)

\* pic7v06 with the point where pic11v99 puts it
Pic7v06AsV99(number) == pic_to_decimal(number, 11)

pic7v06(number) == pic_to_decimal(number, 7)

----------------------------------------------------------------------------
(* The enumerations of b3.datatypes.  Enum(value) returns the member whose *)
(* value it is given and raises ValueError for any other value.  The       *)
(* members are those of the format's layout that the inputs below use.     *)

DailyBulletinTypeValues == {"2", "12", "96"}
MarketTypeValues == {"010", "020", "070", "080"}
ContractCorrectionValues == {"1", "2", "8", "9"}
QuoteSizeValues == {"1", "1000"}

EnumCall(cls, members, v) ==
    IF v \in members THEN Return(EnumV(cls, v)) ELSE Raise("ValueError")

DailyBulletinType(n) == EnumCall("DailyBulletinType", DailyBulletinTypeValues, n)
MarketType(code) == EnumCall("MarketType", MarketTypeValues, code)
ContractCorrection(n) == EnumCall("ContractCorrection", ContractCorrectionValues, n)
QuoteSize(n) == EnumCall("QuoteSize", QuoteSizeValues, n)

\* class _RegistryType(enum.Enum)
RegistryTypeValues == {"00", "01", "99"}
HEADER == "00"
QUOTES == "01"
TRAILER == "99"

_RegistryType(code) == EnumCall("_RegistryType", RegistryTypeValues, code)

----------------------------------------------------------------------------
(* The field table and its factories *)

\* lambda value: DailyBulletinType(int(value))
CODBDI_factory(value) ==
    IF int(value).exc # "" THEN int(value) ELSE DailyBulletinType(int(value).val.v)

\* lambda value: int(value), without the test for a blank field
PrazotWithoutBlankTest(value) == int(value)

\* lambda value: int(value) if value != "" else None
PRAZOT_factory(value) == IF value # "" THEN int(value) ELSE Return(None)

\* lambda value: ContractCorrection(int(value)) if int(value) != 0 else None
INDOPC_factory(value) ==
    IF int(value).exc # "" THEN int(value)
    ELSE IF int(value).val.v # "0" THEN ContractCorrection(int(value).val.v)
    ELSE Return(None)

\* lambda value: QuoteSize(int(value))
FATCOT_factory(value) ==
    IF int(value).exc # "" THEN int(value) ELSE QuoteSize(int(value).val.v)

QuotesField(name, size, factory) == [name |-> name, size |-> size, factory |-> factory]

_quotes_fields ==
    << QuotesField("EXCDAT", 8, "date_from_string"),
       QuotesField("CODBDI", 2, "CODBDI_factory"),
       QuotesField("CODNEG", 12, "str"),
       QuotesField("TPMERC", 3, "MarketType"),
       QuotesField("NOMRES", 12, "str"),
       QuotesField("ESPECI", 10, "str"),
       QuotesField("PRAZOT", 3, "PRAZOT_factory"),
       QuotesField("MODREF", 4, "str"),
       QuotesField("PREABE", 13, "pic11v99"),
       QuotesField("PREMAX", 13, "pic11v99"),
       QuotesField("PREMIN", 13, "pic11v99"),
       QuotesField("PREMED", 13, "pic11v99"),
       QuotesField("PREULT", 13, "pic11v99"),
       QuotesField("PREOFC", 13, "pic11v99"),
       QuotesField("PREOFV", 13, "pic11v99"),
       QuotesField("TOTNEG", 5, "int"),
       QuotesField("QUATOT", 18, "int"),
       QuotesField("VOLTOT", 18, "pic16v99"),
       QuotesField("PREEXE", 13, "pic11v99"),
       QuotesField("INDOPC", 1, "INDOPC_factory"),
       QuotesField("DATVEN", 8, "date_from_string"),
       QuotesField("FATCOT", 7, "FATCOT_factory"),
       QuotesField("PTOEXE", 13, "pic7v06"),
       QuotesField("CODISI", 12, "str"),
       QuotesField("DISMES", 3, "int") >>

\* factory(value) for the factory a field names
Call(factory, value) ==
    CASE factory = "date_from_string" -> date_from_string(value)
      [] factory = "CODBDI_factory" -> CODBDI_factory(value)
      [] factory = "str" -> Return(StrV(value))
      [] factory = "MarketType" -> MarketType(value)
      [] factory = "PRAZOT_factory" -> PRAZOT_factory(value)
      [] factory = "pic11v99" -> pic11v99(value)
      [] factory = "int" -> int(value)
      [] factory = "pic16v99" -> pic16v99(value)
      [] factory = "INDOPC_factory" -> INDOPC_factory(value)
      [] factory = "FATCOT_factory" -> FATCOT_factory(value)
      [] factory = "pic7v06" -> pic7v06(value)

NFields == Len(_quotes_fields)
FieldNames == {_quotes_fields[i].name : i \in 1..NFields}
FieldIndex(name) == CHOOSE i \in 1..NFields : _quotes_fields[i].name = name

\* the offset of field i in a payload laid out by the table
RECURSIVE Offset(_)
Offset(i) == IF i = 1 THEN 0 ELSE Offset(i - 1) + _quotes_fields[i - 1].size

TotalWidth == Offset(NFields) + _quotes_fields[NFields].size

----------------------------------------------------------------------------
(* _parse_quotes_line.  A state of its loop is [values, pos, readAt]:      *)
(* the two locals, and for each field read so far the pos it was read at   *)
(* (history only: the code keeps no such thing).                           *)

LoopStart == [values |-> <<>>, pos |-> 0, readAt |-> <<>>]

\* the try statement of the loop: r is what factory(value.strip()) did
Try(st, field, r) ==
    IF r.exc \in {"IndexError", "ValueError"}
    THEN [st EXCEPT !.readAt = (field.name :> st.pos) @@ @]
    ELSE [values |-> (field.name :> r.val) @@ st.values,
          pos |-> st.pos + field.size,
          readAt |-> (field.name :> st.pos) @@ st.readAt]

\* value = line[pos:stop], for stop = pos + field_size
FieldSlice(line, st, field) == PySlice(line, st.pos, st.pos + field.size)

\* one iteration of the for loop, for the field field
Iteration(line, st, field) ==
    Try(st, field, Call(field.factory, strip(FieldSlice(line, st, field))))

\* the iteration for field number i
LoopBody(line, st, i) == Iteration(line, st, _quotes_fields[i])

\* the iterations from field i on, starting in st (next is bound by a set
\* constructor so that it is evaluated once per iteration)
RECURSIVE Loop(_, _, _)
Loop(line, st, i) ==
    IF i > NFields THEN st
    ELSE CHOOSE end \in {Loop(line, next, i + 1) : next \in {LoopBody(line, st, i)}} : TRUE

\* the whole function: what it returns, with the loop's history
_parse_quotes_line(line) == Loop(line, LoopStart, 1)

_parse_header_line(line) == LoopStart

_parse_trailer_line(line) == LoopStart

\* what _parse_line returns for a recognized code, from the line's parser
Parsed(code, parsed) ==
    [exc |-> "", type |-> code, values |-> parsed.values, readAt |-> parsed.readAt]

\* the three if statements of _parse_line
Dispatch(code, leftover_line) ==
    Parsed(code,
           IF code = HEADER THEN _parse_header_line(leftover_line)
           ELSE IF code = QUOTES THEN _parse_quotes_line(leftover_line)
           ELSE _parse_trailer_line(leftover_line))

\* _parse_line handing the whole line, code included, to the line's parser
ParseLineKeepingCode(line) ==
    IF PySlice(line, 0, 2) \notin RegistryTypeValues
    THEN [exc |-> "ValueError", type |-> "", values |-> <<>>, readAt |-> <<>>]
    ELSE Dispatch(PySlice(line, 0, 2), line)

\* _parse_line: [exc, type, values, readAt]; _RegistryType(line[0:2]) raises
\* ValueError for a code that is no member
_parse_line(line) ==
    IF PySlice(line, 0, 2) \notin RegistryTypeValues
    THEN [exc |-> "ValueError", type |-> "", values |-> <<>>, readAt |-> <<>>]
    ELSE Dispatch(PySlice(line, 0, 2), PyFrom(line, 2))

\* values.get(key)
Get(vals, key) == IF key \in DOMAIN vals THEN vals[key] ELSE None

QuotesKeys == {"PREABE", "PREMAX", "PREMIN", "PREMED", "PREULT", "PREOFC", "PREOFV"}

\* _make_quotes: values[key] raises KeyError for a key that is not there
_make_quotes(vals) ==
    IF ~(QuotesKeys \subseteq DOMAIN vals) THEN Raise("KeyError")
    ELSE Return([open |-> vals["PREABE"], high |-> vals["PREMAX"],
                 low |-> vals["PREMIN"], average |-> vals["PREMED"],
                 close |-> vals["PREULT"], best_ask |-> vals["PREOFC"],
                 best_bid |-> vals["PREOFV"]])

\* DailyBulletin(...): the record holds what it is given
DailyBulletin(vals, quotes) ==
    [exchange_date |-> Get(vals, "EXCDAT"),
     type |-> Get(vals, "CODBDI"),
     isin |-> Get(vals, "CODISI"),
     ticker |-> Get(vals, "CODNEG"),
     market_type |-> Get(vals, "TPMERC"),
     company_short_name |-> Get(vals, "NOMRES"),
     especification |-> Get(vals, "ESPECI"),
     forward_market_remaining_days |-> Get(vals, "PRAZOT"),
     reference_currency |-> Get(vals, "MODREF"),
     quotes |-> quotes,
     total_trade_market |-> Get(vals, "TOTNEG"),
     total_trade_count |-> Get(vals, "QUATOT"),
     total_trade_volume |-> Get(vals, "VOLTOT"),
     strike_price |-> Get(vals, "PREEXE"),
     strike_price_correction_type |-> Get(vals, "INDOPC"),
     maturity_date |-> Get(vals, "DATVEN"),
     quote_size |-> Get(vals, "FATCOT"),
     strike_price_points |-> Get(vals, "PTOEXE"),
     distribution_number |-> Get(vals, "DISMES")]

\* _make_daily_bulleting: every field but the quotes is looked up with get
_make_daily_bulleting(vals) ==
    IF _make_quotes(vals).exc # "" THEN _make_quotes(vals)
    ELSE Return(DailyBulletin(vals, _make_quotes(vals).val))

----------------------------------------------------------------------------
(* Input lines.  A payload is the concatenation of 25 raw fields.          *)

RECURSIVE Join(_)
Join(parts) == IF parts = <<>> THEN "" ELSE Head(parts) \o Join(Tail(parts))

RECURSIVE Repeat(_, _)
Repeat(c, n) == IF n = 0 THEN "" ELSE c \o Repeat(c, n - 1)

\* a cash-market line: no forward days, no strike correction
FieldsA ==
    << "20200102", "02", "PETR4       ", "010", "PETROBRAS   ", "PN      N2",
       "   ", "R$  ", "0000000001050", "0000000001100", "0000000001000",
       "0000000001055", "0000000001090", "0000000001091", "0000000001089",
       "00015", "000000000000001500", "000000000001582500", "0000000000000",
       "0", "99991231", "0000001", "0000000000000", "BRPE12345678", "123" >>

\* an option line: every optional field is present
FieldsB ==
    << "20200103", "96", "VALEA20     ", "070", "VALE        ", "ON      NM",
       "020", "US$ ", "0000000000200", "0000000000250", "0000000000190",
       "0000000000221", "0000000000240", "0000000000241", "0000000000239",
       "00002", "123456789012345678", "000000000000048000", "0000000002000",
       "1", "20200120", "0001000", "0000012500000", "BRVALEACNOR0", "101" >>

PayloadA == Join(FieldsA)
PayloadB == Join(FieldsB)

\* fields with the content of field i replaced
With(fields, i, raw) == [fields EXCEPT ![i] = raw]

HeaderLine == "00COTAHIST.2020BOVESPA 20200103\n"
TrailerLine == "99COTAHIST.2020BOVESPA 2020010300000000004\n"
LineA == "01" \o PayloadA \o "\n"
LineB == "01" \o PayloadB \o "\n"
\* a record-type code that is none of 00, 01, 99
UnknownLine == "02" \o PayloadA \o "\n"
\* a data line two characters short: DISMES is cut to "1"
ShortLine == "01" \o PySlice(PayloadA, 0, TotalWidth - 2) \o "\n"
\* full-width data lines with one field that does not decode
BadDateLine == "01" \o Join(With(FieldsA, FieldIndex("DATVEN"), "00000010")) \o "\n"
BadTypeLine == "01" \o Join(With(FieldsB, FieldIndex("CODBDI"), "XX")) \o "\n"

WellFormedLines == {LineA, LineB}
StreamLines ==
    {HeaderLine, TrailerLine, LineA, LineB, UnknownLine, ShortLine, BadDateLine, BadTypeLine}

----------------------------------------------------------------------------
(* _reader and historical_quotes_reader *)

\* how many lines a stream holds at most
MaxLines == 4
\* the same, under the scoped entry point
MaxScopeLines == 2

\* the try statement of _reader, made being what _make_daily_bulleting did:
\* only ValueError and KeyError are caught
TryYield(made) ==
    IF made.exc \in {"ValueError", "KeyError"} THEN [exc |-> "", yield |-> <<>>]
    ELSE IF made.exc # "" THEN [exc |-> made.exc, yield |-> <<>>]
    ELSE [exc |-> "", yield |-> <<made.val>>]

\* the body of the for loop, parsed being what _parse_line did
ForBody(parsed) ==
    IF parsed.exc # "" THEN [exc |-> parsed.exc, yield |-> <<>>]
    ELSE IF parsed.type # QUOTES THEN [exc |-> "", yield |-> <<>>]
    ELSE TryYield(_make_daily_bulleting(parsed.values))

\* _reader for one line of the stream: the exception that leaves the
\* generator, if any, and the records yielded (none or one)
_reader(line) == ForBody(_parse_line(line))

\* the generator runs to its next yield, or to the exception that ends it; a
\* record is kept with the number of the line it came from (history)
Resume(line, r) ==
    /\ lines' = Append(lines, line)
    /\ gen' = IF r.exc # "" THEN "raised" ELSE "suspended"
    /\ records' = records \o
         [i \in 1..Len(r.yield) |-> [bulletin |-> r.yield[i], line |-> Len(lines) + 1]]

\* the consumer asks for the next record and the stream has one more line
ReadLine(line, max) ==
    /\ scope = "inside" /\ gen = "suspended" /\ Len(lines) < max
    /\ Resume(line, _reader(line))
    /\ UNCHANGED <<mode, scope, closes, lineVars, picVars, queryVars>>

\* the consumer asks for the next record and the stream is at its end
ReadEOF ==
    /\ scope = "inside" /\ gen = "suspended"
    /\ gen' = "exhausted"
    /\ UNCHANGED <<mode, scope, closes, lines, records, lineVars, picVars, queryVars>>

\* historical_quotes_reader up to its yield: open() only for a path
Enter ==
    /\ scope = "before"
    /\ scope' = "inside"
    /\ UNCHANGED <<mode, closes, lines, records, gen, lineVars, picVars, queryVars>>

\* open() raises: nothing was opened and the with-block is not entered
OpenFails ==
    /\ scope = "before" /\ mode = "path"
    /\ scope' = "failed"
    /\ UNCHANGED <<mode, closes, lines, records, gen, lineVars, picVars, queryVars>>

\* f.close() calls made when the with-block ends without an exception: the
\* context manager resumes the function after its yield
ClosesOnExit(m) == IF m = "path" THEN 1 ELSE 0

\* the same without the try statement: the exception leaves at the yield
ClosesOnErrorNoFinally(m) == 0

\* the same when it ends with one: the exception is thrown in at the yield,
\* and the finally clause runs before it goes on
ClosesOnError(m) == IF m = "path" THEN 1 ELSE 0

\* the with-block ends normally, the records consumed to the end or not
Leave ==
    /\ scope = "inside"
    /\ scope' = "exited"
    /\ closes' = closes + ClosesOnExit(mode)
    /\ UNCHANGED <<mode, lines, records, gen, lineVars, picVars, queryVars>>

\* the with-block ends with an exception, the generator's or the caller's own
LeaveByError ==
    /\ scope = "inside"
    /\ scope' = "error"
    /\ closes' = closes + ClosesOnError(mode)
    /\ UNCHANGED <<mode, lines, records, gen, lineVars, picVars, queryVars>>

IdleLine == /\ payload = "" /\ fidx = 0 /\ pos = 0 /\ values = <<>> /\ readAt = <<>>
IdlePic == /\ picField = "" /\ picInput = "" /\ picOut = "pending"
IdleQuery == /\ response = <<>> /\ outcome = "pending"
IdleReader ==
    /\ mode = "none" /\ scope = "before" /\ closes = 0
    /\ lines = <<>> /\ records = <<>> /\ gen = "suspended"

\* _reader over a stream the caller holds
Init ==
    /\ mode = "stream" /\ scope = "inside" /\ closes = 0
    /\ lines = <<>> /\ records = <<>> /\ gen = "suspended"
    /\ IdleLine /\ IdlePic /\ IdleQuery

Next ==
    \/ \E line \in StreamLines : ReadLine(line, MaxLines)
    \/ ReadEOF

Spec == Init /\ [][Next]_vars

\* historical_quotes_reader, given a path or a stream
InitScope ==
    /\ mode \in {"path", "stream"} /\ scope = "before" /\ closes = 0
    /\ lines = <<>> /\ records = <<>> /\ gen = "suspended"
    /\ IdleLine /\ IdlePic /\ IdleQuery

NextScope ==
    \/ Enter
    \/ OpenFails
    \/ \E line \in StreamLines : ReadLine(line, MaxScopeLines)
    \/ ReadEOF
    \/ Leave
    \/ LeaveByError

SpecScope == InitScope /\ [][NextScope]_vars

----------------------------------------------------------------------------
(* _parse_quotes_line, one iteration at a time *)

\* how many fields of a line are overwritten at most
MaxBadFields == 1

Blank(i) == Repeat(" ", _quotes_fields[i].size)
Junk(i) == Repeat("X", _quotes_fields[i].size)

\* other contents for a field, each of the field's width
Others(i) ==
    CASE _quotes_fields[i].name = "EXCDAT" -> {"20200230"}
      [] _quotes_fields[i].name = "PRAZOT" -> {"020", " 12", "7  ", "1 2"}
      [] _quotes_fields[i].name = "PREABE" -> {"00000000105 0"}
      [] _quotes_fields[i].name = "INDOPC" -> {"0", "1", "2", "5", "8", "9"}
      [] _quotes_fields[i].name = "DATVEN" -> {"00000010", "20200229"}
      [] OTHER -> {}

Contents(i) == {Blank(i), Junk(i)} \union Others(i)

\* the lines got from base by overwriting at most k fields
RECURSIVE Overwritten(_, _)
Overwritten(base, k) ==
    IF k = 0 THEN {base}
    ELSE Overwritten(base, k - 1) \union
         {With(f, i, c) : f \in Overwritten(base, k - 1),
                          <<i, c>> \in UNION {{i} \X Contents(i) : i \in 1..NFields}}

\* every prefix of a line
Prefixes(line) == {PySlice(line, 0, n) : n \in 0..Len(line)}

Payloads ==
    {Join(f) : f \in Overwritten(FieldsA, MaxBadFields) \union Overwritten(FieldsB, MaxBadFields)}
    \union Prefixes(PayloadA) \union Prefixes(PayloadB)

\* a line of a stream ends with its line break, but for the last one
LineEnds == {"", "\n"}

InitLine ==
    /\ payload \in {p \o e : p \in Payloads, e \in LineEnds}
    /\ fidx = 1 /\ pos = 0 /\ values = <<>> /\ readAt = <<>>
    /\ IdleReader /\ IdlePic /\ IdleQuery

\* the locals after an iteration that left them as st
Assign(st) ==
    /\ values' = st.values
    /\ pos' = st.pos
    /\ readAt' = st.readAt

\* one iteration of the for loop of _parse_quotes_line
ParseField ==
    /\ fidx \in 1..NFields
    /\ Assign(LoopBody(payload, [values |-> values, pos |-> pos, readAt |-> readAt], fidx))
    /\ fidx' = fidx + 1
    /\ UNCHANGED <<payload, readerVars, picVars, queryVars>>

NextLine == ParseField

SpecLine == InitLine /\ [][NextLine]_vars

\* the slice a field was read from, and the cursor after its iteration
SliceRead(name) == PySlice(payload, readAt[name], readAt[name] + _quotes_fields[FieldIndex(name)].size)
CursorAfter(name) ==
    IF FieldIndex(name) + 1 = fidx THEN pos
    ELSE readAt[_quotes_fields[FieldIndex(name) + 1].name]
Stored(name) == name \in DOMAIN values
WidthOf(name) == _quotes_fields[FieldIndex(name)].size

RECURSIVE SumOfWidths(_)
SumOfWidths(names) ==
    IF names = {} THEN 0
    ELSE WidthOf(CHOOSE n \in names : TRUE)
         + SumOfWidths(names \ {CHOOSE n \in names : TRUE})

\* C7: a blank PRAZOT is stored as no value and the cursor moves on, and a
\* PRAZOT of digits is stored as that integer; an INDOPC of "0" is stored as
\* no value and the cursor moves on, and any other digit that is a correction
\* type is stored as that member.
C7_OptionalAbsence ==
    /\ "PRAZOT" \in DOMAIN readAt =>
         /\ strip(SliceRead("PRAZOT")) = "" =>
              /\ Stored("PRAZOT") /\ values["PRAZOT"] = None
              /\ CursorAfter("PRAZOT") = readAt["PRAZOT"] + 3
         /\ (SliceRead("PRAZOT") # "" /\ IsDigits(SliceRead("PRAZOT"))) =>
              /\ Stored("PRAZOT")
              /\ values["PRAZOT"] = IntV(Numeral(SliceRead("PRAZOT")))
              /\ ToNat(values["PRAZOT"].v) = ToNat(SliceRead("PRAZOT"))
         /\ SliceRead("PRAZOT") = "020" => values["PRAZOT"] = IntV("20")
    /\ "INDOPC" \in DOMAIN readAt =>
         /\ SliceRead("INDOPC") = "0" =>
              /\ Stored("INDOPC") /\ values["INDOPC"] = None
              /\ CursorAfter("INDOPC") = readAt["INDOPC"] + 1
         /\ SliceRead("INDOPC") \in ContractCorrectionValues =>
              /\ Stored("INDOPC")
              /\ values["INDOPC"] = EnumV("ContractCorrection", SliceRead("INDOPC"))

\* a whole line read with both fields absent, each in the form the format
\* gives absence
C7_Witness ==
    /\ fidx = NFields + 1 /\ payload = PayloadA \o "\n"
    /\ SliceRead("PRAZOT") = "   " /\ values["PRAZOT"] = None
    /\ SliceRead("INDOPC") = "0" /\ values["INDOPC"] = None
    /\ pos = TotalWidth

\* C9: the cursor starts at 0; a field whose slice is shorter than its width,
\* or whose decode function rejects the slice, is not stored and leaves the
\* cursor where it is; any other field is stored and moves the cursor by its
\* width; so the cursor is the sum of the widths of the fields stored.
C9_CursorDiscipline ==
    /\ fidx = 1 => pos = 0
    /\ \A name \in DOMAIN readAt :
         IF \/ Len(SliceRead(name)) < WidthOf(name)
            \/ Call(_quotes_fields[FieldIndex(name)].factory, strip(SliceRead(name))).exc # ""
         THEN ~Stored(name) /\ CursorAfter(name) = readAt[name]
         ELSE Stored(name) /\ CursorAfter(name) = readAt[name] + WidthOf(name)
    /\ pos = SumOfWidths(DOMAIN values)

----------------------------------------------------------------------------
(* The picture-decimal fields, one call of a field's factory *)

\* digits the inputs are made of
DigitSample == {"0", "1", "5"}
\* how many leading and trailing characters of an input are not zero-filled
MaxLead == 1
MaxTail == 4

RECURSIVE Strings(_)
Strings(n) ==
    IF n = 0 THEN {""} ELSE {c \o t : c \in DigitSample, t \in Strings(n - 1)}

UpTo(n) == UNION {Strings(k) : k \in 0..n}

\* the digit strings of width w: a few digits, zeros, a few digits
DigitStrings(w) ==
    {h \o Repeat("0", w - Len(h) - Len(t)) \o t : h \in UpTo(MaxLead), t \in UpTo(MaxTail)}

PicFields == {"PREABE", "PREMAX", "PREMIN", "PREMED", "PREULT", "PREOFC", "PREOFV",
              "VOLTOT", "PREEXE", "PTOEXE"}

Pending == [exc |-> "pending", val |-> None]

InitPic ==
    /\ picField \in PicFields
    /\ picInput \in DigitStrings(_quotes_fields[FieldIndex(picField)].size)
    /\ picOut = Pending
    /\ IdleReader /\ IdleLine /\ IdleQuery

\* factory(value.strip()) for the field's slice
DecodePic ==
    /\ picOut = Pending
    /\ picOut' = Call(_quotes_fields[FieldIndex(picField)].factory, strip(picInput))
    /\ UNCHANGED <<picField, picInput, readerVars, lineVars, queryVars>>

NextPic == DecodePic

SpecPic == InitPic /\ [][NextPic]_vars

\* the number of fractional digits of a field
FractionDigits(name) == IF name = "PTOEXE" THEN 6 ELSE 2

\* C6: a string of the field's width made of digits decodes to exactly the
\* integer the digits denote divided by 10^k, k being 6 for PTOEXE and 2 for
\* the price fields and VOLTOT; "0000000001050" in PREABE is 10.50.
C6_PictureDecimal ==
    picOut # Pending =>
        /\ picOut = Return(DecV(Numeral(picInput), 0 - FractionDigits(picField)))
        /\ (picField = "PREABE" /\ picInput = "0000000001050") =>
              picOut.val = DecV("1050", -2)
        /\ (picField = "PTOEXE" /\ picInput = "0000000001050") =>
              picOut.val = DecV("1050", -6)
        /\ (picField = "VOLTOT" /\ picInput = "100000000000000015") =>
              picOut.val = DecV("100000000000000015", -2)

C6_Witness ==
    /\ picField = "PREABE" /\ picInput = "0000000001050"
    /\ picOut = Return(DecV("1050", -2))

----------------------------------------------------------------------------
(* company_detail.  A response is the JSON object the service sent: the    *)
(* keys it has among those a profile is built from, whether the value of   *)
(* lastDate has the format "%d/%m/%Y %H:%M:%S", and its otherCodes, each   *)
(* entry given by the keys it has.                                         *)

\* the keys read for CompanyDetail(...), in the order they are read
ProfileKeys ==
    << "cnpj", "codeCVM", "companyName", "issuingCompany", "tradingName",
       "activity", "industryClassification", "market", "marketIndicator",
       "hasBDR", "typeBDR", "hasEmissions", "hasQuotation", "institutionCommon",
       "institutionPreferred", "status", "website", "lastDate",
       "describleCategoryBVMF" >>

KeySet == {ProfileKeys[i] : i \in 1..Len(ProfileKeys)}
KeyIndex(key) == CHOOSE i \in 1..Len(ProfileKeys) : ProfileKeys[i] = key

\* how many keys a response lacks at most, unless it is empty
MaxMissing == 1
\* how many entries otherCodes has at most
MaxCodes == 2

EntryKeys == {"code", "isin"}
CodeLists == UNION {[1..n -> SUBSET EntryKeys] : n \in 0..MaxCodes}

Responses ==
    [keys : {KeySet \ m : m \in {m \in SUBSET KeySet : Cardinality(m) <= MaxMissing}},
     dateOk : BOOLEAN,
     hasCodes : BOOLEAN,
     codes : CodeLists]
    \union {[keys |-> {}, dateOk |-> TRUE, hasCodes |-> FALSE, codes |-> <<>>]}

\* len(response) == 0
IsEmpty(r) == r.keys = {} /\ ~r.hasCodes

Outcome(kind, about, n) == [kind |-> kind, about |-> about, codes |-> n]

\* the loop over response["otherCodes"] in its try statement: the entries
\* appended before the first KeyError, none when the key itself is missing
SecurityCodes(r) ==
    IF ~r.hasCodes THEN 0
    ELSE IF \A i \in 1..Len(r.codes) : r.codes[i] = EntryKeys THEN Len(r.codes)
    ELSE MinOf({i \in 1..Len(r.codes) : r.codes[i] # EntryKeys}) - 1

\* the index of the first key of ProfileKeys the response lacks, 0 when none
FirstMissing(r) ==
    IF KeySet \subseteq r.keys THEN 0
    ELSE MinOf({i \in 1..Len(ProfileKeys) : ProfileKeys[i] \notin r.keys})

\* strptime(response["lastDate"], ...) raises ValueError before a later key
\* is read
DateRaises(r, missing) ==
    /\ ~r.dateOk /\ "lastDate" \in r.keys
    /\ missing = 0 \/ missing > KeyIndex("lastDate")

\* the second try statement, without its except clause
BuildUncaught(r, missing, n) ==
    IF DateRaises(r, missing) THEN Outcome("ValueError", "", 0)
    ELSE IF missing # 0 THEN Outcome("KeyError", ProfileKeys[missing], 0)
    ELSE Outcome("return", "", n)

\* the second try statement: CompanyDetail(...), a KeyError raised while its
\* arguments are read becoming RequestError("Missing key ...")
Build(r, missing, n) ==
    IF DateRaises(r, missing) THEN Outcome("ValueError", "", 0)
    ELSE IF missing # 0 THEN Outcome("RequestError", ProfileKeys[missing], 0)
    ELSE Outcome("return", "", n)

\* company_detail, from the response on
company_detail(r) ==
    IF IsEmpty(r) THEN Outcome("RequestError", "cvm_code", 0)
    ELSE Build(r, FirstMissing(r), SecurityCodes(r))

InitQuery ==
    /\ response \in Responses
    /\ outcome = Outcome("pending", "", 0)
    /\ IdleReader /\ IdleLine /\ IdlePic

Lookup ==
    /\ outcome.kind = "pending"
    /\ outcome' = company_detail(response)
    /\ UNCHANGED <<response, readerVars, lineVars, picVars>>

NextQuery == Lookup

SpecQuery == InitQuery /\ [][NextQuery]_vars

Missing(r) == KeySet \ r.keys
Complete(r) == r.hasCodes /\ \A i \in 1..Len(r.codes) : r.codes[i] = EntryKeys

----------------------------------------------------------------------------
(* The stream reader: claims C1 to C5 and C10 *)

\* the records the two well-formed lines stand for, field by field
BulletinA ==
    [exchange_date |-> DateV(2020, 1, 2),
     type |-> EnumV("DailyBulletinType", "2"),
     isin |-> StrV("BRPE12345678"),
     ticker |-> StrV("PETR4"),
     market_type |-> EnumV("MarketType", "010"),
     company_short_name |-> StrV("PETROBRAS"),
     especification |-> StrV("PN      N2"),
     forward_market_remaining_days |-> None,
     reference_currency |-> StrV("R$"),
     quotes |-> [open |-> DecV("1050", -2), high |-> DecV("1100", -2),
                 low |-> DecV("1000", -2), average |-> DecV("1055", -2),
                 close |-> DecV("1090", -2), best_ask |-> DecV("1091", -2),
                 best_bid |-> DecV("1089", -2)],
     total_trade_market |-> IntV("15"),
     total_trade_count |-> IntV("1500"),
     total_trade_volume |-> DecV("1582500", -2),
     strike_price |-> DecV("0", -2),
     strike_price_correction_type |-> None,
     maturity_date |-> DateV(9999, 12, 31),
     quote_size |-> EnumV("QuoteSize", "1"),
     strike_price_points |-> DecV("0", -6),
     distribution_number |-> IntV("123")]

BulletinB ==
    [exchange_date |-> DateV(2020, 1, 3),
     type |-> EnumV("DailyBulletinType", "96"),
     isin |-> StrV("BRVALEACNOR0"),
     ticker |-> StrV("VALEA20"),
     market_type |-> EnumV("MarketType", "070"),
     company_short_name |-> StrV("VALE"),
     especification |-> StrV("ON      NM"),
     forward_market_remaining_days |-> IntV("20"),
     reference_currency |-> StrV("US$"),
     quotes |-> [open |-> DecV("200", -2), high |-> DecV("250", -2),
                 low |-> DecV("190", -2), average |-> DecV("221", -2),
                 close |-> DecV("240", -2), best_ask |-> DecV("241", -2),
                 best_bid |-> DecV("239", -2)],
     total_trade_market |-> IntV("2"),
     total_trade_count |-> IntV("123456789012345678"),
     total_trade_volume |-> DecV("48000", -2),
     strike_price |-> DecV("2000", -2),
     strike_price_correction_type |-> EnumV("ContractCorrection", "1"),
     maturity_date |-> DateV(2020, 1, 20),
     quote_size |-> EnumV("QuoteSize", "1000"),
     strike_price_points |-> DecV("12500000", -6),
     distribution_number |-> IntV("101")]

BulletinOf(line) == IF line = LineA THEN BulletinA ELSE BulletinB

\* the numbers of the lines that yielded a record
Yielding == {records[j].line : j \in 1..Len(records)}

CodeOf(line) == PySlice(line, 0, 2)

\* a data line whose payload is shorter than the field table
IsShortData(line) == CodeOf(line) = QUOTES /\ Len(PyFrom(line, 2)) < TotalWidth

\* a full-width data line with a field that did not decode: the factory
\* raised, or a picture-decimal came back as None
IsFullWidth(line) == CodeOf(line) = QUOTES /\ Len(strip(PyFrom(line, 2))) = TotalWidth
HasFailedField(line) ==
    \/ DOMAIN _parse_line(line).values # FieldNames
    \/ \E name \in PicFields : _parse_line(line).values[name] = None

\* the stream is a header, well-formed data lines, and a trailer
HeaderDataTrailer ==
    /\ Len(lines) >= 2
    /\ lines[1] = HeaderLine /\ lines[Len(lines)] = TrailerLine
    /\ \A i \in 2..(Len(lines) - 1) : lines[i] \in WellFormedLines

\* C1: a line with an unrecognized record-type code is skipped and nothing
\* else happens: the reader raises nothing and goes on, and every well-formed
\* data line, also a later one, has its record.
C1_UnknownCodeSkipped ==
    /\ gen # "raised"
    /\ \A i \in 1..Len(lines) : lines[i] \in WellFormedLines => i \in Yielding

\* C2: a header, N well-formed data lines and a trailer yield exactly N
\* records, the i-th being the record of the i-th data line; and no header or
\* trailer line of any stream yields a record.
C2_HeaderDataTrailer ==
    /\ HeaderDataTrailer =>
         /\ gen # "raised"
         /\ Len(records) = Len(lines) - 2
         /\ \A i \in 1..Len(records) :
              /\ records[i].line = i + 1
              /\ records[i].bulletin = BulletinOf(lines[i + 1])
    /\ \A i \in Yielding : CodeOf(lines[i]) \notin {HEADER, TRAILER}

C2_Witness ==
    /\ HeaderDataTrailer /\ gen = "exhausted"
    /\ Len(lines) = 4 /\ lines[2] = LineA /\ lines[3] = LineB
    /\ Len(records) = 2 /\ records[2].bulletin = BulletinB

\* C3: a data line shorter than the field table yields no record, raises
\* nothing, and the reader goes on.
C3_ShortLineSkipped ==
    \A i \in 1..Len(lines) : IsShortData(lines[i]) => (i \notin Yielding /\ gen # "raised")

\* C4: a full-width data line with a field that fails to decode yields no
\* record, and no record is yielded with a required field unpopulated.
C4_FailedFieldSkipped ==
    /\ \A i \in 1..Len(lines) :
         (IsFullWidth(lines[i]) /\ HasFailedField(lines[i])) => i \notin Yielding
    /\ \A j \in 1..Len(records) :
         /\ records[j].bulletin.exchange_date # None
         /\ records[j].bulletin.type # None
         /\ records[j].bulletin.market_type # None
         /\ \A q \in DOMAIN records[j].bulletin.quotes : records[j].bulletin.quotes[q] # None

\* C5: a file opened for a path is closed exactly once when the with-block
\* ends, however it ends, and not before; a stream the caller passed is never
\* closed.
C5_ClosedExactlyOnce ==
    /\ mode = "path" => closes = (IF scope \in {"exited", "error"} THEN 1 ELSE 0)
    /\ mode = "stream" => closes = 0

C5_Witness ==
    /\ mode = "path" /\ scope = "error" /\ gen = "raised" /\ closes = 1
    /\ lines = <<LineA, UnknownLine>>

\* C10: every value of a yielded record was decoded from its field's own
\* bytes, the payload offsets [o, o + width) for o the sum of the widths of
\* the fields before it in the table.
C10_OwnByteRange ==
    \A j \in 1..Len(records) :
        \A name \in DOMAIN _parse_line(lines[records[j].line]).values :
            _parse_line(lines[records[j].line]).readAt[name] = Offset(FieldIndex(name))

====
